---- MODULE Spec2Model ----
(***************************************************************************)
(* Model of the Wordle tracker bot: the lifecycle map of GameState records *)
(* (src/src/main.rs), the presence and message event handlers that run as  *)
(* concurrent tasks under one map lock, and the two retry wrappers.        *)
(* The library functions have specifications of their own: SpecDetect      *)
(* (src/src/detection.rs), SpecVerify and SpecFormat (src/src/lib.rs).     *)
(* FairSpec adds the scheduling assumptions used for termination.          *)
(***************************************************************************)
EXTENDS Integers, Sequences, FiniteSets, TLC

\* ---------------------------------------------------------------- bounds
MaxClock == 3
DayLen == 2
MaxEvents == 3

\* ---------------------------------------------------- program constants
MAX_RETRIES == 3
VerifyMaxRetries == 5
SydneyOffset == 1
NoMsg == 0

Users == {"u1", "u2"}
Tasks == {"t1", "t2"}
Errs == {"e1", "e2"}
Channel == "c1"
NoTask == "free"
NoUser == "nobody"
NoErr == "None"
NoChannel == "None"

VARIABLES
  clock,        \* time elapsed since the process started (Instant::now / Utc::now)
  puzzle_map,   \* HashMap<UserId, GameState>
  lock,         \* holder of the tokio Mutex around the map
  pc,           \* position of each handler task
  ev,           \* the event each task was dispatched with
  todo,         \* message handler: identities still to be visited by iter_mut
  cur,          \* message handler: identity of the current iteration
  retry,        \* retry wrapper: loop counter (retry / retries)
  last_error,   \* retry wrapper: last_error
  ret,          \* retry wrapper: value returned to the handler
  calls,        \* number of times the wrapped operation ran in this wrapper call
  opLast,       \* outcome of the most recent run of the wrapped operation
  waits,        \* backoff sleeps (seconds) of this wrapper call, in order
  outbox,       \* requests made to the messaging collaborator
  attempt,      \* per identity: start of the attempt in progress, or -1 when not playing
  events,       \* number of events the gateway has delivered
  det,          \* a call of detect_needle_in_haystack: its arguments and locals
  vp,           \* a Player and the call of verify_player_completion on it
  fd            \* a call of format_duration: its argument and its result

vars == <<clock, puzzle_map, lock, pc, ev, todo, cur, retry, last_error, ret,
          calls, opLast, waits, outbox, attempt, events, det, vp, fd>>

trackerVars == <<clock, puzzle_map, lock, pc, ev, todo, cur, retry, last_error, ret,
                 calls, opLast, waits, outbox, attempt, events>>
libVars == <<det, vp, fd>>

handlerVars == <<todo, cur>>
wrapperVars == <<retry, last_error, ret, calls, opLast, waits>>

\* ------------------------------------------------------------- GameState
InstantNow == clock
UtcNow == clock

SydneyDate(t) == (t + SydneyOffset) \div DayLen

GameStateNew(user_id) ==
  [ last_start_time   |-> InstantNow,
    total_active_time |-> 0,
    completion_msg_id |-> NoMsg,
    created_at        |-> UtcNow,
    completed         |-> FALSE,
    channel_id        |-> NoChannel ]

is_current(g) == SydneyDate(g.created_at) = SydneyDate(UtcNow)

update_active_time(g) ==
  [g EXCEPT !.total_active_time = @ + (InstantNow - g.last_start_time),
            !.last_start_time = InstantNow]

Tracked == DOMAIN puzzle_map

MapPut(m, u, g) == [x \in (DOMAIN m) \cup {u} |-> IF x = u THEN g ELSE m[x]]

EmptyMap == [x \in {} |-> 0]

Idle == [kind |-> "none"]
NoRet == [kind |-> "none"]

\* No library call is in progress.
NoCall == [pc |-> "none"]

TrackerInit ==
  /\ clock = 0
  /\ puzzle_map = EmptyMap
  /\ lock = NoTask
  /\ pc = [t \in Tasks |-> "idle"]
  /\ ev = [t \in Tasks |-> Idle]
  /\ todo = [t \in Tasks |-> {}]
  /\ cur = [t \in Tasks |-> NoUser]
  /\ retry = [t \in Tasks |-> 0]
  /\ last_error = [t \in Tasks |-> NoErr]
  /\ ret = [t \in Tasks |-> NoRet]
  /\ calls = [t \in Tasks |-> 0]
  /\ opLast = [t \in Tasks |-> "none"]
  /\ waits = [t \in Tasks |-> << >>]
  /\ outbox = {}
  /\ attempt = [u \in Users |-> -1]
  /\ events = 0

Init ==
  /\ TrackerInit
  /\ det = NoCall
  /\ vp = NoCall
  /\ fd = NoCall

\* ------------------------------------------------------------------ time
Tick ==
  /\ UNCHANGED libVars
  /\ clock < MaxClock
  /\ clock' = clock + 1
  /\ UNCHANGED <<puzzle_map, lock, pc, ev, handlerVars, wrapperVars, outbox, attempt, events>>

\* ------------------------------------------------------- presence_update
PresenceDispatch(t, u, p) ==
  /\ UNCHANGED libVars
  /\ pc[t] = "idle"
  /\ events < MaxEvents
  /\ events' = events + 1
  /\ pc' = [pc EXCEPT ![t] = "p_wait"]
  /\ ev' = [ev EXCEPT ![t] = [kind |-> "presence", user |-> u, playing |-> p]]
  /\ UNCHANGED <<clock, puzzle_map, lock, handlerVars, wrapperVars, outbox, attempt>>

\* Variant: the lock is handed out without waiting for its holder.
LockFreeAlways == TRUE

LockFree == lock = NoTask

PresenceAcquire(t) ==
  /\ UNCHANGED libVars
  /\ pc[t] = "p_wait"
  /\ LockFree
  /\ lock' = t
  /\ pc' = [pc EXCEPT ![t] = "p_crit"]
  /\ UNCHANGED <<clock, puzzle_map, ev, handlerVars, wrapperVars, outbox, attempt, events>>

\* Variant: a stale entry only has its attempt start reset.
PresencePlayingReuse(m, u) ==
  IF u \in DOMAIN m
    THEN IF ~is_current(m[u])
           THEN MapPut(m, u, [m[u] EXCEPT !.last_start_time = InstantNow,
                                          !.created_at = UtcNow])
           ELSE m
    ELSE MapPut(m, u, GameStateNew(u))

\* Variant: an occupied entry is replaced whether stale or not.
PresencePlayingRestart(m, u) == MapPut(m, u, GameStateNew(u))

\* Some(activity) branch: the entry is created, replaced when stale, or left alone.
PresencePlaying(m, u) ==
  IF u \in DOMAIN m
    THEN IF ~is_current(m[u]) THEN MapPut(m, u, GameStateNew(u)) ELSE m
    ELSE MapPut(m, u, GameStateNew(u))

\* Variant: the completed flag is not consulted.
PresenceStoppedAlways(m, u) ==
  IF u \in DOMAIN m THEN MapPut(m, u, update_active_time(m[u])) ELSE m

\* None branch: fold the elapsed time unless the game is completed.
PresenceStopped(m, u) ==
  IF u \in DOMAIN m
    THEN IF ~m[u].completed THEN MapPut(m, u, update_active_time(m[u])) ELSE m
    ELSE m

PresenceBody(t) ==
  /\ UNCHANGED libVars
  /\ pc[t] = "p_crit"
  /\ LET u == ev[t].user IN
       /\ puzzle_map' = IF ev[t].playing THEN PresencePlaying(puzzle_map, u)
                                         ELSE PresenceStopped(puzzle_map, u)
       /\ attempt' = [attempt EXCEPT ![u] =
                        IF ev[t].playing THEN (IF @ = -1 THEN InstantNow ELSE @)
                                         ELSE -1]
  /\ lock' = NoTask
  /\ pc' = [pc EXCEPT ![t] = "idle"]
  /\ ev' = [ev EXCEPT ![t] = Idle]
  /\ UNCHANGED <<clock, handlerVars, wrapperVars, outbox, events>>

\* --------------------------------------------------------------- message
\* The event as delivered; guild says whether msg.guild_id is Some.
MessageDispatch(t, guild) ==
  /\ UNCHANGED libVars
  /\ pc[t] = "idle"
  /\ events < MaxEvents
  /\ events' = events + 1
  /\ pc' = [pc EXCEPT ![t] = "m_validate"]
  /\ ev' = [ev EXCEPT ![t] = [kind |-> "message", guild |-> guild]]
  /\ UNCHANGED <<clock, puzzle_map, lock, handlerVars, wrapperVars, outbox, attempt>>

\* validate_message (valid: its result), then
\* `if let Some(attachment) = msg.attachments.last()` (attached).
MessageValidate(t, valid, attached) ==
  /\ UNCHANGED libVars
  /\ pc[t] = "m_validate"
  /\ IF valid /\ attached
       THEN /\ pc' = [pc EXCEPT ![t] = "m_wait"]
            /\ ev' = ev
       ELSE /\ pc' = [pc EXCEPT ![t] = "idle"]
            /\ ev' = [ev EXCEPT ![t] = Idle]
  /\ UNCHANGED <<clock, puzzle_map, lock, handlerVars, wrapperVars, outbox, attempt, events>>

MessageAcquire(t) ==
  /\ UNCHANGED libVars
  /\ pc[t] = "m_wait"
  /\ LockFree
  /\ lock' = t
  /\ pc' = [pc EXCEPT ![t] = "m_download"]
  /\ UNCHANGED <<clock, puzzle_map, ev, handlerVars, wrapperVars, outbox, attempt, events>>

\* The handler returns: the guard on the map is dropped.
Finish(t) ==
  /\ lock' = NoTask
  /\ pc' = [pc EXCEPT ![t] = "idle"]
  /\ ev' = [ev EXCEPT ![t] = Idle]
  /\ todo' = [todo EXCEPT ![t] = {}]
  /\ cur' = [cur EXCEPT ![t] = NoUser]

\* Entry of a retry wrapper; r is what it has returned so far (NoRet: running).
\* The same assignment clears the wrapper's locals when an iteration ends.
EnterWrapper(t, r) ==
  /\ retry' = [retry EXCEPT ![t] = 0]
  /\ last_error' = [last_error EXCEPT ![t] = NoErr]
  /\ ret' = [ret EXCEPT ![t] = r]
  /\ calls' = [calls EXCEPT ![t] = 0]
  /\ opLast' = [opLast EXCEPT ![t] = "none"]
  /\ waits' = [waits EXCEPT ![t] = << >>]

\* download_image(&attachment.url): on failure the handler returns.
MessageDownload(t, ok) ==
  /\ UNCHANGED libVars
  /\ pc[t] = "m_download"
  /\ IF ok
       THEN /\ pc' = [pc EXCEPT ![t] = "m_loop"]
            /\ todo' = [todo EXCEPT ![t] = Tracked]
            /\ UNCHANGED <<lock, ev, cur>>
       ELSE Finish(t)
  /\ UNCHANGED <<clock, puzzle_map, wrapperVars, outbox, attempt, events>>

\* Variant: the handler gives up on the first failed identity.
NextIterationAbort(t) ==
  /\ EnterWrapper(t, NoRet)
  /\ pc' = [pc EXCEPT ![t] = "m_loop"]
  /\ todo' = [todo EXCEPT ![t] = {}]
  /\ cur' = [cur EXCEPT ![t] = NoUser]

\* `continue`: the current iteration ends and iter_mut moves on.
NextIteration(t) ==
  /\ EnterWrapper(t, NoRet)
  /\ pc' = [pc EXCEPT ![t] = "m_loop"]
  /\ todo' = [todo EXCEPT ![t] = @ \ {cur[t]}]
  /\ cur' = [cur EXCEPT ![t] = NoUser]

\* Variant: completed records are not skipped.
SkippedStaleOnly(g) == ~is_current(g)

\* `if game_state.completed || !game_state.is_current() { continue }`
Skipped(g) == g.completed \/ ~is_current(g)

\* One step of `for (user_id, game_state) in puzzle_map.iter_mut()`, in the
\* hash map's (arbitrary) order; the loop ends when nothing is left.
MessageLoop(t) ==
  /\ UNCHANGED libVars
  /\ pc[t] = "m_loop"
  /\ IF todo[t] = {}
       THEN /\ Finish(t)
            /\ UNCHANGED wrapperVars
       ELSE \E u \in todo[t] :
              IF Skipped(puzzle_map[u])
                THEN /\ todo' = [todo EXCEPT ![t] = @ \ {u}]
                     /\ UNCHANGED <<lock, pc, ev, cur, wrapperVars>>
                ELSE /\ cur' = [cur EXCEPT ![t] = u]
                     /\ IF ev[t].guild
                          THEN /\ EnterWrapper(t, NoRet)
                               /\ pc' = [pc EXCEPT ![t] = "g_try"]
                          ELSE /\ EnterWrapper(t, [kind |-> "NotFound", err |-> NoErr])
                               /\ pc' = [pc EXCEPT ![t] = "g_ret"]
                     /\ UNCHANGED <<lock, ev, todo>>
  /\ UNCHANGED <<clock, puzzle_map, outbox, attempt, events>>

\* ------------------------------------------------- get_member_with_retry
RECURSIVE Pow2(_)
Pow2(n) == IF n = 0 THEN 1 ELSE 2 * Pow2(n - 1)

\* Variant: every failed lookup is followed by a sleep and another attempt.
MemberSleepsAlways(r) == TRUE

\* from_secs(1 << retry), slept only `if retry < MAX_RETRIES - 1`.
MemberSleeps(r) == r < MAX_RETRIES - 1
MemberBackoff(r) == Pow2(r)

\* Variant: only the first error is kept.
RememberFirst(old, e) == IF old = NoErr THEN e ELSE old

\* last_error = Some(e)
Remember(old, e) == e

\* guild_id.member(..).await inside `for retry in 0..MAX_RETRIES`.
MemberTry(t, outcome) ==
  /\ UNCHANGED libVars
  /\ pc[t] = "g_try"
  /\ calls' = [calls EXCEPT ![t] = @ + 1]
  /\ opLast' = [opLast EXCEPT ![t] = outcome]
  /\ IF outcome = "ok"
       THEN /\ ret' = [ret EXCEPT ![t] = [kind |-> "Ok", err |-> NoErr]]
            /\ pc' = [pc EXCEPT ![t] = "g_ret"]
            /\ UNCHANGED <<last_error, waits>>
       ELSE /\ last_error' = [last_error EXCEPT ![t] = Remember(@, outcome)]
            /\ IF MemberSleeps(retry[t])
                 THEN /\ waits' = [waits EXCEPT ![t] = Append(@, MemberBackoff(retry[t]))]
                      /\ pc' = [pc EXCEPT ![t] = "g_sleep"]
                      /\ ret' = ret
                 ELSE /\ ret' = [ret EXCEPT ![t] =
                                   [kind |-> "RetryExhausted", err |-> last_error'[t]]]
                      /\ pc' = [pc EXCEPT ![t] = "g_ret"]
                      /\ waits' = waits
  /\ UNCHANGED <<clock, puzzle_map, lock, ev, handlerVars, retry, outbox, attempt, events>>

\* The sleep is over: the for loop takes its next value.
MemberWake(t) ==
  /\ UNCHANGED libVars
  /\ pc[t] = "g_sleep"
  /\ retry' = [retry EXCEPT ![t] = @ + 1]
  /\ pc' = [pc EXCEPT ![t] = "g_try"]
  /\ UNCHANGED <<clock, puzzle_map, lock, ev, handlerVars, last_error, ret, calls,
                 opLast, waits, outbox, attempt, events>>

\* `match Self::get_member_with_retry(..)`: Err => continue, Ok => verification.
MemberReturn(t) ==
  /\ UNCHANGED libVars
  /\ pc[t] = "g_ret"
  /\ IF ret[t].kind = "Ok"
       THEN /\ EnterWrapper(t, NoRet)
            /\ pc' = [pc EXCEPT ![t] = "v_try"]
            /\ UNCHANGED <<todo, cur>>
       ELSE NextIteration(t)
  /\ UNCHANGED <<clock, puzzle_map, lock, ev, outbox, attempt, events>>

\* ------------------------------------------ verify_completion_with_retry
\* retries += 1; from_secs(1 << retries), slept after every failure.
VerifyBackoff(r) == Pow2(r + 1)

\* verify_player_completion(..).await inside `while retries < max_retries`.
VerifyTry(t, outcome) ==
  /\ UNCHANGED libVars
  /\ pc[t] = "v_try"
  /\ calls' = [calls EXCEPT ![t] = @ + 1]
  /\ opLast' = [opLast EXCEPT ![t] = outcome]
  /\ IF outcome \in {"true", "false"}
       THEN /\ ret' = [ret EXCEPT ![t] = [kind |-> "Ok", err |-> NoErr,
                                          completed |-> (outcome = "true")]]
            /\ pc' = [pc EXCEPT ![t] = "v_ret"]
            /\ UNCHANGED <<last_error, retry, waits>>
       ELSE /\ last_error' = [last_error EXCEPT ![t] = Remember(@, outcome)]
            /\ waits' = [waits EXCEPT ![t] = Append(@, VerifyBackoff(retry[t]))]
            /\ retry' = [retry EXCEPT ![t] = @ + 1]
            /\ pc' = [pc EXCEPT ![t] = "v_sleep"]
            /\ ret' = ret
  /\ UNCHANGED <<clock, puzzle_map, lock, ev, handlerVars, outbox, attempt, events>>

\* The sleep is over: the while condition is tested again.
VerifyWake(t) ==
  /\ UNCHANGED libVars
  /\ pc[t] = "v_sleep"
  /\ IF retry[t] < VerifyMaxRetries
       THEN /\ pc' = [pc EXCEPT ![t] = "v_try"]
            /\ ret' = ret
       ELSE /\ pc' = [pc EXCEPT ![t] = "v_ret"]
            /\ ret' = [ret EXCEPT ![t] =
                         [kind |-> "RetryExhausted", err |-> last_error[t],
                          completed |-> FALSE]]
  /\ UNCHANGED <<clock, puzzle_map, lock, ev, handlerVars, retry, last_error, calls,
                 opLast, waits, outbox, attempt, events>>

\* ------------------------------------------- message: the Ok(true) branch
\* Variant: the elapsed attempt is not folded in.
CompleteNoFold(g) == [g EXCEPT !.completed = TRUE, !.channel_id = Channel]

\* completed = true; channel_id = Some(msg.channel_id); update_active_time().
Complete(g) ==
  update_active_time([g EXCEPT !.completed = TRUE, !.channel_id = Channel])

\* The request made to the messaging collaborator for the completed record g:
\* an edit of the referenced message when one is stored, a new message otherwise.
Request(g, u, ok) ==
  [ seq     |-> Cardinality(outbox) + 1,
    kind    |-> IF g.completion_msg_id # NoMsg THEN "edit" ELSE "send",
    user    |-> u,
    created |-> g.created_at,
    total   |-> g.total_active_time,
    ok      |-> ok ]

\* send_completion_message stores the id of the message it sent; a failed
\* send or edit is logged and changes nothing.
AfterRequest(g, r) ==
  IF r.kind = "send" /\ r.ok THEN [g EXCEPT !.completion_msg_id = r.seq] ELSE g

\* `match Self::verify_completion_with_retry(&mut player, &haystack_fp, 5)`.
VerifyReturn(t, ok) ==
  /\ UNCHANGED libVars
  /\ pc[t] = "v_ret"
  /\ LET u == cur[t]
         g == Complete(puzzle_map[u])
         r == Request(g, u, ok)
     IN IF ret[t].kind = "Ok" /\ ret[t].completed
          THEN /\ puzzle_map' = MapPut(puzzle_map, u, AfterRequest(g, r))
               /\ outbox' = outbox \cup {r}
          ELSE /\ ok
               /\ UNCHANGED <<puzzle_map, outbox>>
  /\ NextIteration(t)
  /\ UNCHANGED <<clock, lock, ev, attempt, events>>

\* ------------------------------------------------------------------ Next
Next ==
  \/ Tick
  \/ \E t \in Tasks, u \in Users, p \in BOOLEAN : PresenceDispatch(t, u, p)
  \/ \E t \in Tasks : PresenceAcquire(t)
  \/ \E t \in Tasks : PresenceBody(t)
  \/ \E t \in Tasks, guild \in BOOLEAN : MessageDispatch(t, guild)
  \/ \E t \in Tasks, valid \in BOOLEAN, attached \in BOOLEAN :
       MessageValidate(t, valid, attached)
  \/ \E t \in Tasks : MessageAcquire(t)
  \/ \E t \in Tasks, ok \in BOOLEAN : MessageDownload(t, ok)
  \/ \E t \in Tasks : MessageLoop(t)
  \/ \E t \in Tasks, outcome \in {"ok"} \cup Errs : MemberTry(t, outcome)
  \/ \E t \in Tasks : MemberWake(t)
  \/ \E t \in Tasks : MemberReturn(t)
  \/ \E t \in Tasks, outcome \in {"true", "false"} \cup Errs : VerifyTry(t, outcome)
  \/ \E t \in Tasks : VerifyWake(t)
  \/ \E t \in Tasks, ok \in BOOLEAN : VerifyReturn(t, ok)

Spec == Init /\ [][Next]_vars

\* ------------------------------------------------------------- fairness
\* A handler waiting at puzzle_lock.await is handed the lock.
Acquire(t) == PresenceAcquire(t) \/ MessageAcquire(t)

\* Every other step of a dispatched handler: each await returns.
Progress(t) ==
  \/ PresenceBody(t)
  \/ \E valid \in BOOLEAN, attached \in BOOLEAN : MessageValidate(t, valid, attached)
  \/ \E ok \in BOOLEAN : MessageDownload(t, ok)
  \/ MessageLoop(t)
  \/ \E outcome \in {"ok"} \cup Errs : MemberTry(t, outcome)
  \/ MemberWake(t)
  \/ MemberReturn(t)
  \/ \E outcome \in {"true", "false"} \cup Errs : VerifyTry(t, outcome)
  \/ VerifyWake(t)
  \/ \E ok \in BOOLEAN : VerifyReturn(t, ok)

\* The tokio runtime polls every spawned handler, and the tokio Mutex hands
\* the lock to its waiters in FIFO order.
FairSpec ==
  /\ Spec
  /\ \A t \in Tasks : WF_vars(Progress(t)) /\ SF_vars(Acquire(t))

\* ============================================ detect_needle_in_haystack
\* Bounds of the detection runs.
MaxMatches == 2
MaxSteps == 2
MaxPeaks == 3

\* Scale factors are numerators over ScaleDen: the ranges 0.5..1.0 and 1.0..1.0.
ScaleDen == 2
ScaleRanges == {<<1, 2>>, <<2, 2>>}

\* Similarity values and the thresholds tried (3 is above every value).
Confs == 0..2
Thresholds == 0..3

\* (needle, haystack) sizes tried: a needle that fits at every scale, a
\* needle wider but lower than the haystack at full scale, and a needle one
\* row high, which has no rows left at half scale.
Shapes ==
  { [needle |-> [cols |-> 2, rows |-> 2], haystack |-> [cols |-> 3, rows |-> 2]],
    [needle |-> [cols |-> 4, rows |-> 2], haystack |-> [cols |-> 3, rows |-> 3]],
    [needle |-> [cols |-> 2, rows |-> 1], haystack |-> [cols |-> 3, rows |-> 2]] }

DetectArgs ==
  { [needle |-> sh.needle, haystack |-> sh.haystack, num_matches |-> n,
     min_scale |-> sc[1], max_scale |-> sc[2], scale_steps |-> st, threshold |-> th] :
      sh \in Shapes, n \in 0..MaxMatches, sc \in ScaleRanges,
      st \in 0..MaxSteps, th \in Thresholds }

\* (dim as f64 * scale) as i32 with scale = min_scale + step * scale_step and
\* scale_step = (max_scale - min_scale) / scale_steps. With scale_steps = 0 the
\* division gives inf or NaN, 0 * that is NaN, and NaN as i32 is 0.
ScaledDim(dim, a, step) ==
  IF a.scale_steps = 0
    THEN 0
    ELSE (dim * (a.min_scale * a.scale_steps + step * (a.max_scale - a.min_scale)))
           \div (ScaleDen * a.scale_steps)

scaled_size(a, step) ==
  [cols |-> ScaledDim(a.needle.cols, a, step),
   rows |-> ScaledDim(a.needle.rows, a, step)]

\* imgproc::resize rejects an empty destination size.
ResizeOk(sz) == sz.cols > 0 /\ sz.rows > 0

\* match_template: the template fits, or is at least as large in both
\* dimensions (the library then swaps the two); otherwise it is an error.
TemplateFits(h, n) == n.cols <= h.cols /\ n.rows <= h.rows
TemplateCovers(h, n) == n.cols >= h.cols /\ n.rows >= h.rows
MatchOk(h, n) == TemplateFits(h, n) \/ TemplateCovers(h, n)

Abs(x) == IF x < 0 THEN -x ELSE x

ResultSize(h, n) ==
  [cols |-> Abs(h.cols - n.cols) + 1, rows |-> Abs(h.rows - n.rows) + 1]

Cells(sz) == (0..(sz.cols - 1)) \X (0..(sz.rows - 1))

\* The cells where the surfaces tried have their peaks: the top row.
PeakCells(sz) == {c \in Cells(sz) : c[2] = 0}

\* The similarity surfaces match_template can produce for a result size, with
\* at most n non-zero cells.
Surfaces(sz, n) ==
  UNION { { [c \in Cells(sz) |-> IF c \in P THEN f[c] ELSE 0] :
              f \in [P -> Confs \ {0}] } :
          P \in {Q \in SUBSET PeakCells(sz) : Cardinality(Q) <= n} }

\* Number of non-zero cells of a surface.
Peaks(r) == Cardinality({c \in DOMAIN r : r[c] # 0})

\* core::min_max_loc: the maximum, and the first cell in row-major order
\* that attains it.
MaxVal(r) == CHOOSE v \in {r[c] : c \in DOMAIN r} : \A c \in DOMAIN r : r[c] <= v
RowMajorLeq(c, d) == c[2] < d[2] \/ (c[2] = d[2] /\ c[1] <= d[1])
MaxLoc(r) ==
  CHOOSE c \in DOMAIN r :
    /\ r[c] = MaxVal(r)
    /\ \A d \in DOMAIN r : r[d] = MaxVal(r) => RowMajorLeq(c, d)

Min(a, b) == IF a < b THEN a ELSE b
Max(a, b) == IF a > b THEN a ELSE b

\* The rectangle zeroed around a match at loc, as [x1, x2) x [y1, y2).
SuppressRect(loc, n, sz) ==
  LET x1 == Max(loc[1] - n.cols \div 4, 0)
      y1 == Max(loc[2] - n.rows \div 4, 0)
  IN [x1 |-> x1, y1 |-> y1,
      x2 |-> Min(x1 + n.cols + n.cols \div 2, sz.cols),
      y2 |-> Min(y1 + n.rows + n.rows \div 2, sz.rows)]

InRect(c, q) == q.x1 <= c[1] /\ c[1] < q.x2 /\ q.y1 <= c[2] /\ c[2] < q.y2

\* Variant: nothing is zeroed.
SuppressNothing(r, q) == r

\* imgproc::rectangle(.., Scalar::all(0.0), -1, ..) when x2 > x1 && y2 > y1.
Suppress(r, q) ==
  IF q.x2 > q.x1 /\ q.y2 > q.y1
    THEN [c \in DOMAIN r |-> IF InRect(c, q) THEN 0 ELSE r[c]]
    ELSE r

\* Variant: every maximum is accepted.
AcceptsAny(v, th) == TRUE

\* `if max_val >= threshold`
Accepts(v, th) == v >= th

\* matches.push(((top_left, bottom_right), max_val))
MatchAt(loc, n, v, step) ==
  [tl |-> loc, br |-> <<loc[1] + n.cols, loc[2] + n.rows>>, conf |-> v, step |-> step]

\* Stable insertion of m into a sequence sorted by descending confidence.
RECURSIVE InsertDesc(_, _)
InsertDesc(s, m) ==
  IF s = << >> THEN <<m>>
  ELSE IF s[Len(s)].conf >= m.conf THEN Append(s, m)
  ELSE Append(InsertDesc(SubSeq(s, 1, Len(s) - 1), m), s[Len(s)])

\* matches.sort_by(|a, b| b.1.partial_cmp(&a.1)..): stable, descending.
RECURSIVE SortDesc(_)
SortDesc(s) ==
  IF s = << >> THEN << >>
  ELSE InsertDesc(SortDesc(SubSeq(s, 1, Len(s) - 1)), s[Len(s)])

\* Variant: nothing is cut off.
TruncateNone(s, n) == s

\* matches.truncate(num_matches)
Truncate(s, n) == SubSeq(s, 1, Min(Len(s), n))

\* A call is made with arguments a.
DetectStart(a) ==
  [pc |-> "scale", args |-> a, step |-> 0, i |-> 0,
   sn |-> [cols |-> 0, rows |-> 0], result |-> << >>,
   matches |-> << >>, seen |-> << >>, peaks |-> 0, out |-> << >>]

\* Top of `for step in 0..=scale_steps`: resize, then match_template; an
\* error of resize ends the call, an error of match_template skips the scale.
DetectScale ==
  /\ det.pc = "scale"
  /\ det.step <= det.args.scale_steps
  /\ LET sn == scaled_size(det.args, det.step)
         sz == ResultSize(det.args.haystack, sn)
     IN IF ~ResizeOk(sn)
          THEN det' = [det EXCEPT !.pc = "err", !.sn = sn]
          ELSE IF ~MatchOk(det.args.haystack, sn)
            THEN det' = [det EXCEPT !.step = @ + 1, !.sn = sn]
            ELSE \E r \in Surfaces(sz, MaxPeaks - det.peaks) :
                   det' = [det EXCEPT !.pc = "extract", !.sn = sn, !.i = 0,
                                      !.result = r, !.peaks = @ + Peaks(r),
                                      !.seen = Append(@, [step |-> det.step, surface |-> r])]
  /\ UNCHANGED <<trackerVars, vp, fd>>

\* One iteration of `for _ in 0..num_matches`, or the end of that loop.
DetectExtract ==
  /\ det.pc = "extract"
  /\ IF det.i >= det.args.num_matches
       THEN det' = [det EXCEPT !.pc = "scale", !.step = @ + 1]
       ELSE LET loc == MaxLoc(det.result)
                v == MaxVal(det.result)
                  sz == ResultSize(det.args.haystack, det.sn)
                  ms == Append(det.matches, MatchAt(loc, det.sn, v, det.step))
            IN IF Accepts(v, det.args.threshold)
                 THEN det' = [det EXCEPT
                        !.matches = ms,
                        !.result = Suppress(@, SuppressRect(loc, det.sn, sz)),
                        !.i = @ + 1,
                        !.pc = IF Len(ms) = det.args.num_matches THEN "scale" ELSE @,
                        !.step = IF Len(ms) = det.args.num_matches THEN @ + 1 ELSE @]
                 ELSE det' = [det EXCEPT !.i = @ + 1]
  /\ UNCHANGED <<trackerVars, vp, fd>>

\* Variant: the pool is returned in insertion order.
ReturnedUnsorted(ms, n) == Truncate(ms, n)

\* What the call returns from the pool of matches.
Returned(ms, n) == Truncate(SortDesc(ms), n)

\* After the last scale: sort, truncate, Ok(matches).
DetectReturn ==
  /\ det.pc = "scale"
  /\ det.step > det.args.scale_steps
  /\ det' = [det EXCEPT !.pc = "done", !.out = Returned(det.matches, det.args.num_matches)]
  /\ UNCHANGED <<trackerVars, vp, fd>>

InitDetect ==
  /\ TrackerInit
  /\ \E a \in DetectArgs : det = DetectStart(a)
  /\ vp = NoCall
  /\ fd = NoCall

NextDetect ==
  \/ DetectScale
  \/ DetectExtract
  \/ DetectReturn

SpecDetect == InitDetect /\ [][NextDetect]_vars
\* ============================================ Player, verify_player_completion
\* Bound on the calls made on one Player.
MaxCalls == 2

\* Player::downloaded_fp = None, and the paths download_image can return.
NoPath == "None"
Paths == {"a1", "a2"}
FetchFail == "fail"

\* Player::new
PlayerNew == [downloaded_fp |-> NoPath, completed |-> FALSE]

\* Bounding boxes ((x1, y1), (x2, y2)) of the matches tried: markers two
\* wide, avatars one or two wide.
MarkerBoxes ==
  { [tl |-> <<x, y>>, br |-> <<x + 2, y + 1>>] : x \in {0, 2}, y \in {0, 1} }
AvatarBoxes ==
  { [tl |-> <<x, y>>, br |-> <<x + w, y + w>>] : x \in 0..3, y \in {0, 1}, w \in {1, 2} }

\* Results of the marker detection (up to two matches) and of the avatar
\* detection (num_matches = 1), or the error of imread / detection.
MarkerResults ==
  {[ok |-> TRUE, boxes |-> cs] : cs \in {c \in SUBSET MarkerBoxes : Cardinality(c) <= 2}}
    \cup {[ok |-> FALSE, boxes |-> {}]}
AvatarResults ==
  {[ok |-> TRUE, boxes |-> bs] : bs \in {<< >>} \cup {<<b>> : b \in AvatarBoxes}}
    \cup {[ok |-> FALSE, boxes |-> << >>]}

\* Variant: the cache is never consulted.
CachedNever(p) == FALSE

\* `match &self.downloaded_fp { Some(v) => ..`
Cached(p) == p.downloaded_fp # NoPath

\* Player::download_profile_picture with the outcome o of download_image: the
\* player afterwards, the result, and the number of fetches made.
download_profile_picture(p, o) ==
  IF Cached(p)
    THEN [player |-> p, ok |-> TRUE, path |-> p.downloaded_fp, fetched |-> 0]
    ELSE IF o = FetchFail
      THEN [player |-> p, ok |-> FALSE, path |-> NoPath, fetched |-> 1]
      ELSE [player |-> [p EXCEPT !.downloaded_fp = o], ok |-> TRUE, path |-> o,
            fetched |-> 1]

\* Variant: no early return on an empty marker result.
IsEmptyNever(cs) == FALSE

\* `completions.is_empty()`
IsEmpty(cs) == cs = {}

\* center = (x_coord_1 + x_coord_2) / 2
Center(b) == (b.tl[1] + b.br[1]) \div 2

\* Variant: the center may lie on an edge of the marker.
ContainsOrTouches(f, center) == f.tl[1] <= center /\ f.br[1] >= center

\* (f.0.0.x < center) && (f.0.1.x > center)
Contains(f, center) == f.tl[1] < center /\ f.br[1] > center

\* completions.iter().any(..)
AnyContains(cs, center) == \E f \in cs : Contains(f, center)

\* The state between calls on the player p.
VerifyIdle(p, n, k) ==
  [pc |-> "idle", last |-> "none", player |-> p, before |-> p, calls |-> n,
   fetches |-> k, fetches0 |-> k, completions |-> {}, found |-> << >>,
   markers |-> "unset", avatar |-> "unset",
   image_path |-> NoPath, ret |-> "none"]

VerifyReady == vp.pc \in {"idle", "ret"} /\ vp.calls < MaxCalls

\* verify_player_completion up to the marker check.
VerifyCall ==
  /\ VerifyReady
  /\ \E r \in MarkerResults :
       LET s == [VerifyIdle(vp.player, vp.calls + 1, vp.fetches)
                   EXCEPT !.last = "VerifyCall"]
       IN IF ~r.ok
            THEN vp' = [s EXCEPT !.pc = "ret", !.ret = "Err"]
            ELSE IF IsEmpty(r.boxes)
              THEN vp' = [s EXCEPT !.pc = "ret", !.ret = "Ok(false)", !.markers = "Ok"]
              ELSE vp' = [s EXCEPT !.pc = "avatar", !.markers = "Ok",
                                   !.completions = r.boxes]
  /\ UNCHANGED <<trackerVars, det, fd>>

\* `player.download_profile_picture().await?`
VerifyDownload ==
  /\ vp.pc = "avatar"
  /\ \E o \in Paths \cup {FetchFail} :
       LET d == download_profile_picture(vp.player, o)
       IN vp' = [vp EXCEPT !.last = "VerifyDownload",
                           !.player = d.player,
                           !.fetches = @ + d.fetched,
                           !.image_path = d.path,
                           !.pc = IF d.ok THEN "detect" ELSE "ret",
                           !.ret = IF d.ok THEN @ ELSE "Err"]
  /\ UNCHANGED <<trackerVars, det, fd>>

\* The avatar detection and the decision.
VerifyAvatar ==
  /\ vp.pc = "detect"
  /\ \E r \in AvatarResults :
       IF ~r.ok
         THEN vp' = [vp EXCEPT !.last = "VerifyAvatar", !.pc = "ret",
                               !.avatar = "Err", !.ret = "Err"]
         ELSE IF Len(r.boxes) = 1
           THEN LET completed == AnyContains(vp.completions, Center(r.boxes[1]))
                IN vp' = [vp EXCEPT !.last = "VerifyAvatar", !.pc = "ret",
                                    !.avatar = "Ok", !.found = r.boxes,
                                    !.player.completed = completed,
                                    !.ret = IF completed THEN "Ok(true)" ELSE "Ok(false)"]
           ELSE vp' = [vp EXCEPT !.last = "VerifyAvatar", !.pc = "ret",
                                 !.avatar = "Ok", !.found = r.boxes,
                                 !.ret = "Ok(false)"]
  /\ UNCHANGED <<trackerVars, det, fd>>

\* A direct call of Player::download_profile_picture.
DownloadCall ==
  /\ VerifyReady
  /\ \E o \in Paths \cup {FetchFail} :
       LET d == download_profile_picture(vp.player, o)
       IN vp' = [VerifyIdle(d.player, vp.calls + 1, vp.fetches + d.fetched)
                   EXCEPT !.last = "DownloadCall", !.pc = "ret",
                          !.before = vp.player, !.fetches0 = vp.fetches,
                          !.image_path = d.path,
                          !.ret = IF d.ok THEN "Ok(path)" ELSE "Err"]
  /\ UNCHANGED <<trackerVars, det, fd>>

InitVerify ==
  /\ TrackerInit
  /\ det = NoCall
  /\ vp = VerifyIdle(PlayerNew, 0, 0)
  /\ fd = NoCall

NextVerify ==
  \/ VerifyCall
  \/ VerifyDownload
  \/ VerifyAvatar
  \/ DownloadCall

SpecVerify == InitVerify /\ [][NextVerify]_vars

\* ============================================ format_duration
\* Bound on the hours of the durations tried.
MaxHours == 2

\* Durations are in milliseconds; strings are sequences of characters.
Minutes == {0, 1, 2, 59}
Seconds == {0, 1, 2, 59}
Millis == {0, 1, 5, 10, 99, 100, 999}
DurationOf(h, m, s, ms) == ((h * 60 + m) * 60 + s) * 1000 + ms
Durations ==
  { DurationOf(h, m, s, ms) :
      h \in 0..MaxHours, m \in Minutes, s \in Seconds, ms \in Millis }

Digit(k) == <<"0", "1", "2", "3", "4", "5", "6", "7", "8", "9">>[k + 1]

\* "{}" of an unsigned integer.
RECURSIVE Decimal(_)
Decimal(n) ==
  IF n < 10 THEN <<Digit(n)>> ELSE Decimal(n \div 10) \o <<Digit(n % 10)>>

\* "{:03}": zero-padded to a width of at least three.
RECURSIVE PadLeft(_, _)
PadLeft(s, w) == IF Len(s) >= w THEN s ELSE PadLeft(<<"0">> \o s, w)
Decimal03(n) == PadLeft(Decimal(n), 3)

\* Variant: the plural is used for values above one only.
PluralAboveOne(n) == IF n > 1 THEN <<"s">> ELSE << >>

\* if n != 1 { "s" } else { "" }
Plural(n) == IF n # 1 THEN <<"s">> ELSE << >>

HourWord == <<" ", "h", "o", "u", "r">>
MinuteWord == <<" ", "m", "i", "n", "u", "t", "e">>
SecondWord == <<" ", "s", "e", "c", "o", "n", "d">>
CommaSep == <<",", " ">>
AndSep == <<" ", "a", "n", "d", " ">>

\* time_parts.join(sep)
RECURSIVE Join(_, _)
Join(parts, sep) ==
  IF parts = << >> THEN << >>
  ELSE IF Len(parts) = 1 THEN parts[1]
  ELSE parts[1] \o sep \o Join(Tail(parts), sep)

format_duration(duration) ==
  LET total_seconds == duration \div 1000
      hours == total_seconds \div 3600
      remaining_seconds_after_hours == total_seconds % 3600
      minutes == remaining_seconds_after_hours \div 60
      seconds == remaining_seconds_after_hours % 60
      milliseconds == duration % 1000
      hour_part == IF hours > 0
                     THEN <<Decimal(hours) \o HourWord \o Plural(hours)>>
                     ELSE << >>
      minute_part == IF minutes > 0
                       THEN <<Decimal(minutes) \o MinuteWord \o Plural(minutes)>>
                       ELSE << >>
      second_part == Decimal(seconds) \o <<".">> \o Decimal03(milliseconds)
                       \o SecondWord \o Plural(seconds)
      time_parts == hour_part \o minute_part \o <<second_part>>
  IN IF Len(time_parts) = 1
       THEN time_parts[1]
       ELSE Join(SubSeq(time_parts, 1, Len(time_parts) - 1), CommaSep)
              \o AndSep \o time_parts[Len(time_parts)]

\* A call of format_duration.
FormatCall ==
  /\ fd.pc = "call"
  /\ fd' = [fd EXCEPT !.pc = "done", !.out = format_duration(fd.duration)]
  /\ UNCHANGED <<trackerVars, det, vp>>

InitFormat ==
  /\ TrackerInit
  /\ det = NoCall
  /\ vp = NoCall
  /\ \E d \in Durations : fd = [pc |-> "call", duration |-> d, out |-> << >>]

NextFormat == FormatCall

SpecFormat == InitFormat /\ [][NextFormat]_vars

\* ================================================================ claims
Rec(u) == puzzle_map[u]
SleepPcs == {"g_sleep", "v_sleep"}

\* A presence handler is about to run its critical section for identity u.
PresenceStep(t, u, playing) ==
  /\ pc[t] = "p_crit"
  /\ pc'[t] = "idle"
  /\ ev[t].user = u
  /\ ev[t].playing = playing

\* C1: under PresenceChanged events on a current, not-completed record the
\* accumulated total grows only when an attempt ends (the player was playing)
\* and only by the length of that attempt (now - start of the attempt), so
\* paused time is never added and a second pause event adds nothing.
C1_TotalGrowsOnlyByAttempt ==
  [][\A t \in Tasks, u \in Users :
       ( /\ PresenceStep(t, u, FALSE)
         /\ u \in Tracked
         /\ is_current(Rec(u))
         /\ ~Rec(u).completed
         /\ puzzle_map'[u].total_active_time > Rec(u).total_active_time )
       => /\ attempt[u] # -1
          /\ puzzle_map'[u].total_active_time - Rec(u).total_active_time
               = InstantNow - attempt[u]]_vars

\* Successful sends of a new completion notification for u's record.
SentFor(u) ==
  {r \in outbox : r.kind = "send" /\ r.ok /\ r.user = u /\ r.created = Rec(u).created_at}

\* C2: a record that has become completed has exactly one new completion
\* notification sent for it, never two and never zero, also when the send fails.
C2_ExactlyOneNotification ==
  \A u \in Tracked : Rec(u).completed => Cardinality(SentFor(u)) = 1

\* C3: once a record is completed, every later presence or attachment event
\* leaves its completed flag, accumulated total and notification reference
\* unchanged and makes no request to the messaging collaborator for it, until
\* the record is replaced by a fresh one because it is stale.
C3_CompletedTerminal ==
  [][\A u \in Tracked :
       Rec(u).completed =>
         /\ u \in DOMAIN puzzle_map'
         /\ {r \in outbox' : r.user = u} = {r \in outbox : r.user = u}
         /\ \/ /\ puzzle_map'[u].completed
               /\ puzzle_map'[u].total_active_time = Rec(u).total_active_time
               /\ puzzle_map'[u].completion_msg_id = Rec(u).completion_msg_id
            \/ /\ ~is_current(Rec(u))
               /\ puzzle_map'[u] = GameStateNew(u)]_vars

\* C3 witness: later events meet a completed record whose clock has moved on:
\* an attachment handler has passed over it and a pause event is waiting.
C3_Witness ==
  \E t \in Tasks, s \in Tasks, u \in Tracked :
    /\ Rec(u).completed
    /\ InstantNow > Rec(u).last_start_time
    /\ pc[t] = "p_wait" /\ ev[t].user = u /\ ~ev[t].playing
    /\ pc[s] = "m_loop" /\ u \notin todo[s]

\* C4: a pause event on a stale record leaves its accumulated total and its
\* attempt start unchanged.
C4_StaleNotFolded ==
  [][\A t \in Tasks, u \in Users :
       ( /\ PresenceStep(t, u, FALSE)
         /\ u \in Tracked
         /\ ~is_current(Rec(u)) )
       => /\ puzzle_map'[u].total_active_time = Rec(u).total_active_time
          /\ puzzle_map'[u].last_start_time = Rec(u).last_start_time]_vars

\* C5: a playing event on a stale record replaces it with a fresh record:
\* total 0, not completed, no notification reference, no channel, attempt
\* start now and creation day today.
C5_StaleReplaced ==
  [][\A t \in Tasks, u \in Users :
       ( /\ PresenceStep(t, u, TRUE)
         /\ u \in Tracked
         /\ ~is_current(Rec(u)) )
       => /\ puzzle_map'[u].total_active_time = 0
          /\ ~puzzle_map'[u].completed
          /\ puzzle_map'[u].completion_msg_id = NoMsg
          /\ puzzle_map'[u].channel_id = NoChannel
          /\ puzzle_map'[u].last_start_time = InstantNow
          /\ SydneyDate(puzzle_map'[u].created_at) = SydneyDate(UtcNow)]_vars

\* C5 witness: a playing event meets a stale record that is completed, has a
\* notification reference and a positive total.
C5_Witness ==
  \E t \in Tasks, u \in Tracked :
    /\ pc[t] = "p_crit" /\ ev[t].user = u /\ ev[t].playing
    /\ ~is_current(Rec(u))
    /\ Rec(u).completed
    /\ Rec(u).completion_msg_id # NoMsg
    /\ Rec(u).total_active_time > 0

\* The attachment handler t resolves the verification result of its current
\* identity in this step.
VerifyResultStep(t) == pc[t] = "v_ret" /\ pc'[t] = "m_loop"

VerifiedTrue(t) == ret[t].kind = "Ok" /\ ret[t].completed

\* C6: on a true verification result the record becomes completed, its total
\* becomes the previous total plus (now - attempt start), and exactly one
\* request is made, carrying that new total: a send when the record holds no
\* notification reference, an edit of the referenced notification otherwise.
C6_CompletionFoldsAndNotifies ==
  [][\A t \in Tasks :
       (VerifyResultStep(t) /\ VerifiedTrue(t)) =>
         LET u == cur[t]
             g == Rec(u)
             h == puzzle_map'[u]
         IN /\ h.completed
            /\ h.total_active_time
                 = g.total_active_time + (InstantNow - g.last_start_time)
            /\ \E r \in outbox' \ outbox :
                 /\ outbox' = outbox \cup {r}
                 /\ r.user = u
                 /\ r.total = h.total_active_time
                 /\ r.kind = IF g.completion_msg_id = NoMsg THEN "send" ELSE "edit"]_vars

\* C6 witness: a record completed with a positive total, with a new
\* notification carrying that total and referenced by the record.
C6_Witness ==
  \E u \in Tracked, r \in outbox :
    /\ Rec(u).completed
    /\ Rec(u).total_active_time > 0
    /\ r.user = u /\ r.kind = "send" /\ r.ok
    /\ r.total = Rec(u).total_active_time
    /\ Rec(u).completion_msg_id = r.seq

\* The attachment handler t resolves a failed member lookup in this step.
MemberFailedStep(t) == pc[t] = "g_ret" /\ ret[t].kind # "Ok" /\ pc'[t] # "g_ret"

InMember(t) == pc[t] \in {"g_try", "g_sleep", "g_ret"}
InVerify(t) == pc[t] \in {"v_try", "v_sleep", "v_ret"}
MaxAttempts(t) == IF InMember(t) THEN MAX_RETRIES ELSE VerifyMaxRetries

\* C8: in both wrappers the operation runs at most max_attempts times; the
\* retries-exhausted error is returned after exactly max_attempts failed runs and
\* carries the error of the last run; a successful run is the last run.
C8_RetryExhaustion ==
  \A t \in Tasks :
    (InMember(t) \/ InVerify(t)) =>
      /\ calls[t] <= MaxAttempts(t)
      /\ ret[t].kind = "RetryExhausted" =>
           /\ calls[t] = MaxAttempts(t)
           /\ opLast[t] \in Errs
           /\ ret[t].err = opLast[t]
      /\ (opLast[t] \in Errs /\ calls[t] = MaxAttempts(t) /\ pc[t] \in {"g_ret", "v_ret"})
           => ret[t].kind = "RetryExhausted"
      /\ opLast[t] \in {"ok", "true", "false"} =>
           /\ pc[t] \in {"g_ret", "v_ret"}
           /\ ret[t].kind = "Ok"

\* C8 witness: the verification wrapper has returned the exhaustion error after
\* all its runs failed.
C8_Witness ==
  \E t \in Tasks :
    /\ pc[t] = "v_ret"
    /\ ret[t].kind = "RetryExhausted"
    /\ calls[t] = VerifyMaxRetries

\* C9: in both wrappers the i-th backoff sleep (i from 1) lasts 2^(i-1)
\* seconds and there are at most max_attempts - 1 sleeps.
C9_BackoffSchedule ==
  \A t \in Tasks :
    (InMember(t) \/ InVerify(t)) =>
      /\ Len(waits[t]) <= MaxAttempts(t) - 1
      /\ \A i \in 1..Len(waits[t]) : waits[t][i] = Pow2(i - 1)

\* C10: while an attachment handler sleeps between attempts, a presence
\* handler waiting for the map lock can acquire it.
C10_SleepBlocksOnlySleeper ==
  \A t \in Tasks, s \in Tasks :
    (pc[t] \in SleepPcs /\ pc[s] = "p_wait") => ENABLED PresenceAcquire(s)

\* Positions at which a handler holds the guard on the map.
CritPcs == {"p_crit", "m_download", "m_loop", "g_try", "g_sleep", "g_ret",
            "v_try", "v_sleep", "v_ret"}

InCrit(t) == pc[t] \in CritPcs

\* C11: the map is read and written only under the one map lock, held for the
\* handler's whole read-modify-write sequence: at most one handler is inside its
\* critical section, it is the lock holder, the map and the outbox change only
\* in a step of that handler, and a handler entering its critical section finds
\* no other handler's update in progress.
C11_MapUnderLock ==
  [][/\ \A t \in Tasks, s \in Tasks : (InCrit(t) /\ InCrit(s)) => t = s
     /\ \A t \in Tasks : InCrit(t) <=> lock = t
     /\ (puzzle_map' # puzzle_map) =>
          \E t \in Tasks : InCrit(t) /\ lock = t /\ pc'[t] # pc[t]
     /\ \A t \in Tasks : (~InCrit(t) /\ InCrit(t)') =>
          \A s \in Tasks \ {t} : ~InCrit(s) /\ ~InCrit(s)']_vars

\* C11 witness: an attachment handler holds the lock in its loop, having just
\* completed a record, while a presence handler waits for the lock.
C11_Witness ==
  \E t \in Tasks, s \in Tasks :
    /\ pc[t] = "m_loop" /\ lock = t
    /\ \E u \in Tracked \ todo[t] : Rec(u).completed
    /\ pc[s] = "p_wait"


\* ------------------------------------------- detect_needle_in_haystack
DetectDone == det.pc = "done"

\* C12: a finished detection returns at most num_matches matches, whatever
\* the number of scales and of accepted peaks (num_matches = 0 included).
C12_AtMostNumMatches ==
  DetectDone => Len(det.out) <= det.args.num_matches

\* The pool holds more matches than were asked for.
C12_Witness ==
  /\ DetectDone
  /\ Len(det.matches) > det.args.num_matches
  /\ det.args.num_matches > 0
  /\ Len(det.out) = det.args.num_matches

\* C13: every returned match has confidence >= threshold.
C13_AboveThreshold ==
  DetectDone =>
    \A k \in 1..Len(det.out) : det.out[k].conf >= det.args.threshold

\* A surface held a non-zero peak below the threshold, another one passed.
C13_Witness ==
  /\ DetectDone
  /\ Len(det.out) > 0
  /\ \E k \in 1..Len(det.seen) : \E c \in DOMAIN det.seen[k].surface :
       /\ det.seen[k].surface[c] > 0
       /\ det.seen[k].surface[c] < det.args.threshold

\* C14: the returned sequence is non-increasing in confidence, across the
\* matches of all scales.
C14_SortedByConfidence ==
  DetectDone =>
    \A j, k \in 1..Len(det.out) : j < k => det.out[j].conf >= det.out[k].conf

\* Two returned matches of different scales were found in ascending order.
C14_Witness ==
  /\ DetectDone
  /\ Len(det.out) >= 2
  /\ det.out[1].step > det.out[2].step
  /\ det.out[1].conf > det.out[2].conf

\* The instances of the template in the image: the places where some scale's
\* surface reaches a positive threshold.
Instances ==
  {c \in UNION {DOMAIN det.seen[k].surface : k \in 1..Len(det.seen)} :
     \E k \in 1..Len(det.seen) :
       /\ c \in DOMAIN det.seen[k].surface
       /\ det.seen[k].surface[c] >= det.args.threshold}

\* Any two instances are at least one template width apart.
WellSeparated ==
  \A c, d \in Instances :
    c # d => Abs(c[1] - d[1]) >= det.args.needle.cols

\* C15: with K well-separated instances and num_matches >= K, exactly K
\* matches are returned, one per instance, also when an instance clears the
\* threshold at several scales.
C15_OnePerInstance ==
  (/\ DetectDone
   /\ det.args.threshold > 0
   /\ WellSeparated
   /\ det.args.num_matches >= Cardinality(Instances)) =>
    /\ Len(det.out) = Cardinality(Instances)
    /\ \A c \in Instances :
         Cardinality({k \in 1..Len(det.out) : det.out[k].tl = c}) = 1


\* ------------------------------------------- verify_player_completion, Player
\* A call of verify_player_completion has returned.
VerifyReturned ==
  vp.pc = "ret" /\ vp.last \in {"VerifyCall", "VerifyDownload", "VerifyAvatar"}

\* C16: the call returns true exactly when there is a marker match, exactly
\* one avatar match, and some marker has left < center < right for the
\* avatar's horizontal center (left + right) / 2; no vertical coordinate
\* enters, and an avatar detection without a match gives false, not an error.
C16_TrueIffCenterInMarker ==
  /\ (VerifyReturned /\ vp.ret \in {"Ok(true)", "Ok(false)"}) =>
       (vp.ret = "Ok(true)" <=>
          /\ vp.completions # {}
          /\ Len(vp.found) = 1
          /\ \E f \in vp.completions :
               /\ 2 * f.tl[1] < vp.found[1].tl[1] + vp.found[1].br[1] - 1
               /\ 2 * f.br[1] > vp.found[1].tl[1] + vp.found[1].br[1])
  /\ (VerifyReturned /\ vp.avatar = "Ok" /\ vp.found = << >>) => vp.ret = "Ok(false)"

\* True was returned for an avatar that lies above every marker.
C16_Witness ==
  /\ VerifyReturned
  /\ vp.ret = "Ok(true)"
  /\ \A f \in vp.completions : f.tl[2] >= vp.found[1].br[2]

\* C17: a call that does not return true leaves player.completed as it was,
\* so a completed player stays completed.
C17_CompletedOnlyOnSuccess ==
  (VerifyReturned /\ vp.ret # "Ok(true)") =>
    vp.player.completed = vp.before.completed

\* C18: with no marker match the call returns false, the avatar is not
\* fetched, and downloaded_fp and completed are as before the call.
C18_NoMarkerNoFetch ==
  (VerifyReturned /\ vp.markers = "Ok" /\ vp.completions = {}) =>
    /\ vp.ret = "Ok(false)"
    /\ vp.fetches = vp.fetches0
    /\ vp.image_path = NoPath
    /\ vp.avatar = "unset"
    /\ vp.player = vp.before

\* No marker was found for a player whose avatar is not resolved yet.
C18_Witness ==
  /\ VerifyReturned
  /\ vp.markers = "Ok"
  /\ vp.completions = {}
  /\ vp.player.downloaded_fp = NoPath
  /\ vp.ret = "Ok(false)"

DownloadSteps == {"VerifyDownload", "DownloadCall"}

\* C20: once downloaded_fp is resolved it never changes, no further fetch is
\* made, and every later download_profile_picture returns that path; a failed
\* fetch leaves downloaded_fp unresolved.
C20_FetchOnce ==
  [][/\ vp.player.downloaded_fp # NoPath =>
          /\ vp'.player.downloaded_fp = vp.player.downloaded_fp
          /\ vp'.fetches = vp.fetches
          /\ vp'.last \in DownloadSteps =>
               (vp'.image_path = vp.player.downloaded_fp /\ vp'.ret # "Err")
     /\ vp'.fetches \in {vp.fetches, vp.fetches + 1}
     /\ (vp'.fetches # vp.fetches /\ vp'.ret = "Err") =>
          vp'.player.downloaded_fp = NoPath]_vars

\* The second call on a player was served from the resolved path.
C20_Witness ==
  /\ vp.last \in DownloadSteps
  /\ vp.calls = 2
  /\ vp.fetches = 1
  /\ vp.fetches0 = 1
  /\ vp.image_path = vp.player.downloaded_fp
  /\ vp.image_path # NoPath


\* ------------------------------------------- format_duration
\* The components of the formatted duration.
FdHours == fd.duration \div 3600000
FdMinutes == (fd.duration \div 60000) % 60
FdSeconds == (fd.duration \div 1000) % 60
FdMillis == fd.duration % 1000

\* A unit name with "s" exactly when its value is not 1.
UnitName(word, n) == IF n = 1 THEN word ELSE word \o <<"s">>

\* The three parts as the claim writes them.
HoursText == Decimal(FdHours) \o UnitName(HourWord, FdHours)
MinutesText == Decimal(FdMinutes) \o UnitName(MinuteWord, FdMinutes)
SecondsText ==
  Decimal(FdSeconds) \o <<".">>
    \o <<Digit(FdMillis \div 100), Digit((FdMillis \div 10) % 10), Digit(FdMillis % 10)>>
    \o UnitName(SecondWord, FdSeconds)

\* C19: hours are listed only when h > 0 and minutes only when m > 0, the
\* text always ends with the seconds part "s.mmm" with three millisecond
\* digits, a unit name ends in "s" exactly when its value is not 1, and the
\* parts are joined with ", " and the last one with " and ".
C19_FormatDuration ==
  fd.pc = "done" =>
    fd.out =
      CASE FdHours > 0 /\ FdMinutes > 0 ->
             HoursText \o CommaSep \o MinutesText \o AndSep \o SecondsText
        [] FdHours > 0 /\ FdMinutes = 0 -> HoursText \o AndSep \o SecondsText
        [] FdHours = 0 /\ FdMinutes > 0 -> MinutesText \o AndSep \o SecondsText
        [] OTHER -> SecondsText

\* 1 h 2 min 0.005 s was formatted: singular, plural, zero and padding.
C19_Witness ==
  /\ fd.pc = "done"
  /\ fd.duration = DurationOf(1, 2, 0, 5)
  /\ Len(fd.out) = Len(<<"1">> \o HourWord \o CommaSep \o <<"2">> \o MinuteWord \o <<"s">>
                         \o AndSep \o <<"0", ".", "0", "0", "5">> \o SecondWord \o <<"s">>)


\* ------------------------------------------- detection, per-scale behaviour
\* Greedy extraction of up to n picks on one surface r, on its own: the
\* maximum is taken while it reaches the threshold, each pick zeroing its
\* neighbourhood.
RECURSIVE GreedyPicks(_, _, _, _)
GreedyPicks(r, step, n, acc) ==
  LET sn == scaled_size(det.args, step)
      sz == ResultSize(det.args.haystack, sn)
      loc == MaxLoc(r)
  IN IF n = 0 \/ MaxVal(r) < det.args.threshold
       THEN acc
       ELSE GreedyPicks(Suppress(r, SuppressRect(loc, sn, sz)), step, n - 1,
                        Append(acc, MatchAt(loc, sn, MaxVal(r), step)))

\* The pool of the independent extractions of the first k surfaces searched.
RECURSIVE IndependentPool(_)
IndependentPool(k) ==
  IF k = 0 THEN << >>
  ELSE IndependentPool(k - 1)
         \o GreedyPicks(det.seen[k].surface, det.seen[k].step,
                        det.args.num_matches, << >>)

\* C21: the result is the num_matches best entries of the pool obtained by
\* extracting on every scale's surface independently of the other scales.
C21_ScalesIndependent ==
  DetectDone =>
    det.out = Truncate(SortDesc(IndependentPool(Len(det.seen))), det.args.num_matches)


\* C22: with at least one step between the scales, a scale that cannot be
\* searched is skipped and the call does not fail.
C22_InfeasibleScaleSkipped ==
  det.args.scale_steps > 0 => det.pc # "err"


\* C24: with scale_steps = 0 the call does not fail and makes exactly one
\* search, with the template scaled by min_scale.
C24_ZeroStepsOneSearch ==
  det.args.scale_steps = 0 =>
    /\ det.pc # "err"
    /\ DetectDone =>
         /\ Len(det.seen) = 1
         /\ det.sn = [cols |-> (det.args.needle.cols * det.args.min_scale) \div ScaleDen,
                      rows |-> (det.args.needle.rows * det.args.min_scale) \div ScaleDen]


\* The suppression rectangle of the k-th pooled match.
RectOf(k) ==
  LET sn == scaled_size(det.args, det.matches[k].step)
  IN SuppressRect(det.matches[k].tl, sn, ResultSize(det.args.haystack, sn))

\* C26: for a positive threshold, the rectangle zeroed after a match contains
\* the match's peak, and no later match of the same scale has its top-left
\* inside the rectangle of an earlier match of that scale.
C26_SuppressionCoversPeak ==
  det.args.threshold > 0 =>
    \A j \in 1..Len(det.matches) :
      /\ InRect(det.matches[j].tl, RectOf(j))
      /\ \A k \in (j + 1)..Len(det.matches) :
           det.matches[k].step = det.matches[j].step =>
             ~InRect(det.matches[k].tl, RectOf(j))

\* Two matches were taken at one scale, and some match's rectangle was
\* clamped at the right border of its surface.
C26_Witness ==
  /\ det.args.threshold > 0
  /\ \E j, k \in 1..Len(det.matches) :
       j < k /\ det.matches[j].step = det.matches[k].step
  /\ \E m \in 1..Len(det.matches) :
       LET sn == scaled_size(det.args, det.matches[m].step)
       IN det.matches[m].tl[1] + sn.cols + sn.cols \div 2
            > ResultSize(det.args.haystack, sn).cols


\* ------------------------------------------- tracker, frame and termination
\* C23: a playing event on an existing, current record leaves every field of
\* that record and every other identity's record unchanged.
C23_PlayingOnCurrentIsNoop ==
  [][\A t \in Tasks, u \in Users :
       ( /\ PresenceStep(t, u, TRUE)
         /\ u \in Tracked
         /\ is_current(Rec(u)) )
       => puzzle_map' = puzzle_map]_vars

\* A playing event meets a current record that was started earlier, while
\* another identity is tracked too.
C23_Witness ==
  \E t \in Tasks, u \in Tracked :
    /\ pc[t] = "p_crit" /\ ev[t].user = u /\ ev[t].playing
    /\ is_current(Rec(u))
    /\ Rec(u).last_start_time < InstantNow
    /\ Tracked # {u}


\* C25: a record that stores a notification reference or a channel is
\* completed, and every request made to the messaging collaborator is a new
\* notification, never an edit of an earlier one.
C25_NeverEdits ==
  /\ \A u \in Tracked :
       (Rec(u).completion_msg_id # NoMsg \/ Rec(u).channel_id # NoChannel)
         => Rec(u).completed
  /\ \A r \in outbox : r.kind = "send"

\* An attachment handler is about to pass over a current, completed record
\* that stores a notification reference.
C25_Witness ==
  \E t \in Tasks, u \in Tracked :
    /\ pc[t] = "m_loop"
    /\ u \in todo[t]
    /\ Rec(u).completed
    /\ Rec(u).completion_msg_id # NoMsg
    /\ is_current(Rec(u))


WaitPcs == {"p_wait", "m_wait"}

\* C27: a handler that holds the map lock releases it, within at most
\* MAX_RETRIES member lookups and five verification attempts per record, and
\* a handler waiting for the lock acquires it.
C27_HandlersTerminate ==
  /\ [](\A t \in Tasks : /\ InMember(t) => calls[t] <= MAX_RETRIES
                         /\ InVerify(t) => calls[t] <= VerifyMaxRetries)
  /\ \A t \in Tasks : (lock = t) ~> (lock # t)
  /\ \A t \in Tasks : (pc[t] \in WaitPcs) ~> (lock = t)

\* A presence handler waits while an attachment handler sleeps after its
\* last verification attempt.
C27_Witness ==
  \E t \in Tasks, s \in Tasks :
    /\ pc[t] = "v_sleep"
    /\ calls[t] = VerifyMaxRetries
    /\ lock = t
    /\ pc[s] \in WaitPcs

====
